---- MODULE Spec2Model ----
(***************************************************************************)
(* A model of py/examples/noaa_hurricanes.ipynb: the notebook's code cells *)
(* run top to bottom, a cell that raises ends the run.                     *)
(*                                                                         *)
(* The Earth Engine service and the map widget are outside the notebook.   *)
(* What they return is modelled by their documented meaning:               *)
(*   - ee.Initialize / ee.Authenticate either return or raise;             *)
(*   - the query algebra (filter, toList, map, distinct, sort, geometry)   *)
(*     is evaluated on a concrete feature collection;                      *)
(*   - Deck.show paints the layers of the deck in list order.              *)
(* The client builds query descriptions that the service evaluates when    *)
(* a map is displayed; the model evaluates them where the cell runs, on    *)
(* the dataset the service holds, which does not change during a run.      *)
(* system:time_start is kept in hours since the epoch (the service keeps   *)
(* milliseconds; HURDAT2 observations fall on whole hours).                *)
(***************************************************************************)
EXTENDS Integers, Sequences, FiniteSets, TLC

VARIABLES
    pc,            \* the next step of the notebook run
    session,       \* TRUE once ee.Initialize has returned
    e,             \* the exception bound by "except Exception as e", or "none"
    raised,        \* the exception that ended the run, "none" while running
    firstError,    \* history: what the first ee.Initialize raised
    initCalls,     \* history: calls of ee.Initialize
    authCalls,     \* history: calls of ee.Authenticate
    hurricanes,    \* the dataset the service holds
    year,          \* the year string, a sequence of decimal digits
    points,
    storm_ids,
    lines,
    lines_layer,
    points_layer,
    view_state,
    r,             \* the pdk.Deck
    shown,         \* history: what r.show() has displayed, in order
    credentials    \* environment: a valid stored credential exists

vars == <<pc, session, e, raised, firstError, initCalls, authCalls,
          hurricanes, year, points, storm_ids, lines,
          lines_layer, points_layer, view_state, r, shown, credentials>>

sessionVars == <<session, e, raised, firstError, initCalls, authCalls>>
queryVars   == <<hurricanes, year, points, storm_ids, lines>>
layerVars   == <<lines_layer, points_layer>>
deckVars    == <<view_state, r, shown>>

\* The value of a name that is not bound yet, and None: the empty function.
Unset == <<>>

(***************************************************************************)
(* Bounds of the model.                                                    *)
(***************************************************************************)
\* Longest dataset enumerated feature by feature.
MaxLen == 2
\* Most observations that follow the bulk of a large dataset.
MaxExtra == 2

(***************************************************************************)
(* Dates: ee.Date(year), Date.getRange('year'), ee.Filter.date.            *)
(***************************************************************************)
\* Decimal value of a digit string: ee.Date('2017') reads the year 2017.
RECURSIVE ParseInt(_)
ParseInt(s) ==
    IF s = <<>> THEN 0
    ELSE 10 * ParseInt(SubSeq(s, 1, Len(s) - 1)) + s[Len(s)]

\* Days from 0001-01-01 to January 1st of year y (proleptic Gregorian).
DaysBeforeYear(y) ==
    365 * (y - 1) + ((y - 1) \div 4) - ((y - 1) \div 100) + ((y - 1) \div 400)

\* Hours from 1970-01-01T00:00Z to y-01-01T00:00Z.
StartOfYear(y) == 24 * (DaysBeforeYear(y) - DaysBeforeYear(1970))

\* ee.Date(str) for a year-only string: midnight UTC, January 1st.
Date(str) == StartOfYear(ParseInt(str))

\* The calendar year an instant at or after the epoch falls in.  No year
\* is longer than 366 days, so the year is the guess or the one after it
\* (for the first centuries after the epoch).
YearOf(t) ==
    LET guess == 1970 + (t \div (24 * 366))
    IN  CHOOSE y \in guess..(guess + 1) :
            StartOfYear(y) <= t /\ t < StartOfYear(y + 1)

\* Date.getRange('year'): from the start of the date's year to the start
\* of the next one.
GetRangeYear(date) ==
    [start |-> StartOfYear(YearOf(date)), end |-> StartOfYear(YearOf(date) + 1)]

\* A filter that also keeps the end of the range.
FilterDate_EndInclusive(range, f) ==
    range.start <= f.time_start /\ f.time_start <= range.end

\* ee.Filter.date(range): start inclusive, end exclusive, on system:time_start.
FilterDate(range, f) ==
    range.start <= f.time_start /\ f.time_start < range.end

(***************************************************************************)
(* The inputs enumerated: the year and the dataset held by the service.    *)
(***************************************************************************)
\* year = '2017' in the notebook; 2016, a leap year, is enumerated too.
Years == {<<2, 0, 1, 6>>, <<2, 0, 1, 7>>}

StormIds == {"AL01", "AL02"}

\* Instants at and next to the boundaries of the enumerated years.
BoundaryTimes ==
    UNION {{StartOfYear(ParseInt(y)) - 1, StartOfYear(ParseInt(y)),
            StartOfYear(ParseInt(y) + 1) - 1, StartOfYear(ParseInt(y) + 1)}
           : y \in Years}

Observations == [id : StormIds, time_start : BoundaryTimes]

ShortSeqs(S, n) == UNION {[1..k -> S] : k \in 0..n}

(***************************************************************************)
(* The service's dataset.  A feature is a point observation of one storm:  *)
(* its id, its system:time_start and its point geometry.  The geometry of  *)
(* the i-th feature of the dataset is i: every observation has a position  *)
(* of its own, so a vertex of a line names the observation it came from.   *)
(***************************************************************************)
\* points.toList(1000): the count given to toList.
ToListLimit == 1000

Feature(i, obs) ==
    [id |-> obs.id, time_start |-> obs.time_start, geometry |-> i]

\* The bulk of a large dataset: one storm observed hourly from the first
\* hour of 2017 on, in time order.
BulkObs(i) == [id |-> "AL01", time_start |-> StartOfYear(2017) + i]

\* What may follow the bulk: an observation of either storm at the first
\* instant of 2017 (earlier than all of the bulk) or at the first instant
\* of 2018 (outside 2017).
ExtraObservations ==
    [id : StormIds, time_start : {StartOfYear(2017), StartOfYear(2018)}]

\* n bulk observations followed by the observations of tail.
Dataset(n, tail) ==
    [i \in 1..(n + Len(tail)) |->
        IF i <= n THEN Feature(i, BulkObs(i)) ELSE Feature(i, tail[i - n])]

\* Small datasets of every shape, and datasets whose filtered size is
\* just below, at and just above the toList count.
Datasets ==
    {Dataset(0, t) : t \in ShortSeqs(Observations, MaxLen)}
    \cup
    {Dataset(n, t) : n \in {ToListLimit - 1, ToListLimit},
                     t \in ShortSeqs(ExtraObservations, MaxExtra)}

(***************************************************************************)
(* The query algebra, by its documented meaning.                           *)
(***************************************************************************)
\* FeatureCollection.toList(count): the first count features, in order.
ToList(coll, count) ==
    SubSeq(coll, 1, IF Len(coll) < count THEN Len(coll) ELSE count)

\* List.distinct: each value once, in order of first occurrence.
Distinct(list) ==
    LET firsts == {i \in 1..Len(list) : \A j \in 1..(i - 1) : list[j] # list[i]}
        nth(n) == CHOOSE i \in firsts : Cardinality({j \in firsts : j < i}) = n - 1
    IN  [n \in 1..Cardinality(firsts) |-> list[nth(n)]]

\* How the service orders features of equal sort key: the notebook does
\* not fix it, the service may keep or reverse their collection order.
TieOrders == {"keep", "reverse"}

\* FeatureCollection.sort('system:time_start'): ascending.
Sort(coll, ties) ==
    IF ties = "keep"
    THEN SortSeq(coll, LAMBDA a, b : a.time_start < b.time_start)
    ELSE SortSeq(coll, LAMBDA a, b : a.time_start <= b.time_start)

\* FeatureCollection.geometry().coordinates(): the features' positions,
\* in collection order.
Coordinates(coll) == [i \in 1..Len(coll) |-> coll[i].geometry]

\* ee.Geometry.LineString(coords).
LineString(coords) == [type |-> "LineString", coordinates |-> coords]

(***************************************************************************)
(* The query cell.                                                         *)
(***************************************************************************)
get_id(point) == point.id

\* list.map(get_id)
MapGetId(list) == [i \in 1..Len(list) |-> get_id(list[i])]

\* points = hurricanes.filter(ee.Filter.date(ee.Date(year).getRange('year')))
FilterPoints(coll, y) ==
    LET range == GetRangeYear(Date(y))
    IN  SelectSeq(coll, LAMBDA f : FilterDate(range, f))

\* The ids of all points, with no toList count.
FindStormIds_AllPoints(pts) == Distinct(MapGetId(pts))

\* storm_ids = points.toList(1000).map(get_id).distinct()
FindStormIds(pts) == Distinct(MapGetId(ToList(pts, ToListLimit)))

\* create_line(storm_id), over the points collection pts.
create_line(pts, storm_id, ties) ==
    LET own    == SelectSeq(pts, LAMBDA f : f.id = storm_id)
        sorted == Sort(own, ties)
        line   == LineString(Coordinates(sorted))
    IN  [geometry |-> line, id |-> storm_id]

\* Lines only for the storms that have two points or more.
CreateLines_SkipShort(pts, ids, ties) ==
    LET long == SelectSeq(ids,
                    LAMBDA id : Len(SelectSeq(pts, LAMBDA f : f.id = id)) >= 2)
    IN  [i \in 1..Len(long) |-> create_line(pts, long[i], ties)]

\* lines = ee.FeatureCollection(storm_ids.map(create_line))
CreateLines(pts, ids, ties) ==
    [i \in 1..Len(ids) |-> create_line(pts, ids[i], ties)]

(***************************************************************************)
(* Layers and decks.                                                       *)
(***************************************************************************)
\* EarthEngineLayer(ee_object, vis_params, **kwargs): the layer keeps a
\* reference to the Earth Engine object (the name it is bound to), the
\* visualization parameters and the keyword properties.
EarthEngineLayer(ee_object, vis_params, kwargs) ==
    [ee_object |-> ee_object, vis_params |-> vis_params, props |-> kwargs]

\* as_vector defaults to False.
AsVector(layer) ==
    "as_vector" \in DOMAIN layer.props /\ layer.props.as_vector

\* The collection a layer's reference resolves to.
Resolve(ref) ==
    CASE ref = "lines"  -> lines
      [] ref = "points" -> points

\* pdk.ViewState(latitude=36, longitude=-53, zoom=3)
ViewState == [latitude |-> 36, longitude |-> -53, zoom |-> 3]

\* pdk.Deck(layers=..., initial_view_state=..., tooltip=...)
Deck(layers, initial_view_state, tooltip) ==
    [layers |-> layers, initial_view_state |-> initial_view_state,
     tooltip |-> tooltip]

\* r.show(): the widget paints the deck's layers in list order, the first
\* at the bottom.
Show(deck) ==
    [painted |-> deck.layers, camera |-> deck.initial_view_state]

\* layers=[points_layer, lines_layer]
RasterDeckLayers == <<points_layer, lines_layer>>

\* The vector deck with the list order of the raster deck.
VectorDeckLayers_PointsFirst == <<points_layer, lines_layer>>

\* layers=[lines_layer, points_layer]
VectorDeckLayers == <<lines_layer, points_layer>>

(***************************************************************************)
(* The run.                                                                *)
(***************************************************************************)
Init ==
    /\ pc = "initialize"
    /\ credentials \in BOOLEAN
    /\ session = FALSE
    /\ e = "none"
    /\ raised = "none"
    /\ firstError = "none"
    /\ initCalls = 0
    /\ authCalls = 0
    /\ hurricanes = Unset
    /\ year = Unset
    /\ points = Unset
    /\ storm_ids = Unset
    /\ lines = Unset
    /\ lines_layer = Unset
    /\ points_layer = Unset
    /\ view_state = Unset
    /\ r = Unset
    /\ shown = <<>>

\* What ee.Initialize() does: it returns only with a valid stored
\* credential; it raises EEException (no credential, or an account the
\* service refuses) or another exception (the service cannot be reached).
InitializeOutcomes ==
    {"EEException", "OtherException"} \cup (IF credentials THEN {"ok"} ELSE {})

\* What ee.Authenticate() does: the interactive flow stores a credential,
\* or raises when the user declines or no flow can be run.
AuthenticateOutcomes == {"ok", "declined", "unavailable"}

\* A handler for the missing-credential exception only.
Caught_CredentialsOnly(exc) == exc = "EEException"

\* The exceptions "except Exception" catches.
Caught(exc) == exc \in {"EEException", "OtherException"}

\* ee.Authenticate() run whether or not ee.Initialize() raised.
InitializeFirst_AlwaysAuthenticate ==
    /\ pc = "initialize"
    /\ initCalls' = initCalls + 1
    /\ \E outcome \in InitializeOutcomes :
         IF outcome = "ok"
         THEN /\ session' = TRUE
              /\ UNCHANGED <<e, firstError>>
         ELSE /\ firstError' = outcome
              /\ e' = outcome
              /\ UNCHANGED session
    /\ pc' = "authenticate"
    /\ UNCHANGED <<raised, authCalls, credentials>>
    /\ UNCHANGED <<queryVars, layerVars, deckVars>>

\* try: ee.Initialize()
InitializeFirst ==
    /\ pc = "initialize"
    /\ initCalls' = initCalls + 1
    /\ \E outcome \in InitializeOutcomes :
         IF outcome = "ok"
         THEN /\ session' = TRUE
              /\ pc' = "query"
              /\ UNCHANGED <<e, raised, firstError>>
         ELSE /\ firstError' = outcome
              /\ IF Caught(outcome)
                 THEN /\ e' = outcome
                      /\ pc' = "authenticate"
                      /\ UNCHANGED raised
                 ELSE /\ raised' = outcome
                      /\ pc' = "failed"
                      /\ UNCHANGED e
              /\ UNCHANGED session
    /\ UNCHANGED <<authCalls, credentials>>
    /\ UNCHANGED <<queryVars, layerVars, deckVars>>

\* A handler that goes on to the second ee.Initialize() although
\* ee.Authenticate() raised.
Authenticate_FallThrough ==
    /\ pc = "authenticate"
    /\ authCalls' = authCalls + 1
    /\ \E outcome \in AuthenticateOutcomes :
         IF outcome = "ok"
         THEN /\ credentials' = TRUE
              /\ UNCHANGED raised
         ELSE /\ raised' = outcome
              /\ UNCHANGED credentials
    /\ pc' = "retry"
    /\ UNCHANGED <<session, e, firstError, initCalls>>
    /\ UNCHANGED <<queryVars, layerVars, deckVars>>

\* except Exception as e: ee.Authenticate()
Authenticate ==
    /\ pc = "authenticate"
    /\ authCalls' = authCalls + 1
    /\ \E outcome \in AuthenticateOutcomes :
         IF outcome = "ok"
         THEN /\ credentials' = TRUE
              /\ pc' = "retry"
              /\ UNCHANGED <<e, raised>>
         ELSE /\ raised' = outcome
              /\ e' = "none"
              /\ pc' = "failed"
              /\ UNCHANGED credentials
    /\ UNCHANGED <<session, firstError, initCalls>>
    /\ UNCHANGED <<queryVars, layerVars, deckVars>>

\* A handler that authenticates again whenever ee.Initialize() raises.
InitializeRetry_Loop ==
    /\ pc = "retry"
    /\ initCalls' = initCalls + 1
    /\ \E outcome \in InitializeOutcomes :
         IF outcome = "ok"
         THEN /\ session' = TRUE
              /\ e' = "none"
              /\ pc' = "query"
         ELSE /\ e' = outcome
              /\ pc' = "authenticate"
              /\ UNCHANGED session
    /\ UNCHANGED <<raised, firstError, authCalls, credentials>>
    /\ UNCHANGED <<queryVars, layerVars, deckVars>>

\* ... ee.Initialize(), still inside the handler
InitializeRetry ==
    /\ pc = "retry"
    /\ initCalls' = initCalls + 1
    /\ e' = "none"
    /\ \E outcome \in InitializeOutcomes :
         IF outcome = "ok"
         THEN /\ session' = TRUE
              /\ pc' = "query"
              /\ UNCHANGED raised
         ELSE /\ raised' = outcome
              /\ pc' = "failed"
              /\ UNCHANGED session
    /\ UNCHANGED <<firstError, authCalls, credentials>>
    /\ UNCHANGED <<queryVars, layerVars, deckVars>>

\* The cell that builds hurricanes, year, points, storm_ids and lines.
QueryCell ==
    /\ pc = "query"
    /\ \E dataset \in Datasets, y \in Years, ties \in TieOrders :
         LET pts == FilterPoints(dataset, y)
             ids == FindStormIds(pts)
         IN  /\ hurricanes' = dataset
             /\ year' = y
             /\ points' = pts
             /\ storm_ids' = ids
             /\ lines' = CreateLines(pts, ids, ties)
    /\ pc' = "lines_layer"
    /\ UNCHANGED <<sessionVars, credentials, layerVars, deckVars>>

\* lines_layer = EarthEngineLayer(lines, {'color': 'red'}, id="tracks")
RasterLinesLayerCell ==
    /\ pc = "lines_layer"
    /\ lines_layer' = EarthEngineLayer("lines", [color |-> "red"], [id |-> "tracks"])
    /\ pc' = "points_layer"
    /\ UNCHANGED <<sessionVars, credentials, queryVars, points_layer, deckVars>>

\* points_layer = EarthEngineLayer(points, {'color': 'black'}, id="points")
RasterPointsLayerCell ==
    /\ pc = "points_layer"
    /\ points_layer' = EarthEngineLayer("points", [color |-> "black"], [id |-> "points"])
    /\ pc' = "deck"
    /\ UNCHANGED <<sessionVars, credentials, queryVars, lines_layer, deckVars>>

\* view_state = ...; r = pdk.Deck(layers=[points_layer, lines_layer], ...); r.show()
RasterDeckCell ==
    /\ pc = "deck"
    /\ view_state' = ViewState
    /\ r' = Deck(RasterDeckLayers, ViewState, FALSE)
    /\ shown' = Append(shown, Show(Deck(RasterDeckLayers, ViewState, FALSE)))
    /\ pc' = "vector_layers"
    /\ UNCHANGED <<sessionVars, credentials, queryVars, layerVars>>

\* The vector cell with the tracks layer built over points.
VectorLayersCell_WrongCollection ==
    /\ pc = "vector_layers"
    /\ lines_layer' =
         EarthEngineLayer("points", Unset,
            [as_vector |-> TRUE, get_line_color |-> <<255, 0, 0>>,
             getLineWidth |-> 1000, lineWidthMinPixels |-> 3, id |-> "tracks"])
    /\ points_layer' =
         EarthEngineLayer("points", Unset,
            [get_fill_color |-> <<0, 0, 0>>, pointRadiusMinPixels |-> 3,
             getRadius |-> 100, getLineColor |-> <<255, 255, 255>>,
             lineWidthMinPixels |-> "0.5", as_vector |-> TRUE,
             stroked |-> TRUE, id |-> "points"])
    /\ pc' = "vector_deck"
    /\ UNCHANGED <<sessionVars, credentials, queryVars, deckVars>>

\* The cell that binds lines_layer and points_layer again, as_vector=True.
\* (lineWidthMinPixels=0.5 is kept as the string "0.5".)
VectorLayersCell ==
    /\ pc = "vector_layers"
    /\ lines_layer' =
         EarthEngineLayer("lines", Unset,
            [as_vector |-> TRUE, get_line_color |-> <<255, 0, 0>>,
             getLineWidth |-> 1000, lineWidthMinPixels |-> 3, id |-> "tracks"])
    /\ points_layer' =
         EarthEngineLayer("points", Unset,
            [get_fill_color |-> <<0, 0, 0>>, pointRadiusMinPixels |-> 3,
             getRadius |-> 100, getLineColor |-> <<255, 255, 255>>,
             lineWidthMinPixels |-> "0.5", as_vector |-> TRUE,
             stroked |-> TRUE, id |-> "points"])
    /\ pc' = "vector_deck"
    /\ UNCHANGED <<sessionVars, credentials, queryVars, deckVars>>

\* view_state = ...; r = pdk.Deck(layers=[lines_layer, points_layer], ...,
\* tooltip=True); r.show()
VectorDeckCell ==
    /\ pc = "vector_deck"
    /\ view_state' = ViewState
    /\ r' = Deck(VectorDeckLayers, ViewState, TRUE)
    /\ shown' = Append(shown, Show(Deck(VectorDeckLayers, ViewState, TRUE)))
    /\ pc' = "done"
    /\ UNCHANGED <<sessionVars, credentials, queryVars, layerVars>>

Next ==
    \/ InitializeFirst
    \/ Authenticate
    \/ InitializeRetry
    \/ QueryCell
    \/ RasterLinesLayerCell
    \/ RasterPointsLayerCell
    \/ RasterDeckCell
    \/ VectorLayersCell
    \/ VectorDeckCell

Spec == Init /\ [][Next]_vars

\* The kernel runs the next statement whenever there is one.
FairSpec == Init /\ [][Next]_vars /\ WF_vars(Next)

(***************************************************************************)
(* Session Init: claims C1, C2, C3, C9.                                    *)
(***************************************************************************)
\* The steps of the session cell.
SessionSteps == {"initialize", "authenticate", "retry"}

\* ee.Authenticate() has been called and has returned.
AuthenticateReturned ==
    authCalls >= 1 /\ raised \notin {"declined", "unavailable"}

\* The calls of ee.Authenticate so far: none when the first ee.Initialize
\* returned; when it raised, none while the call is the next step and one
\* from then on.
AuthCallsMatchFirstOutcome ==
    /\ (initCalls >= 1 /\ firstError = "none") => authCalls = 0
    /\ (firstError # "none" /\ pc = "authenticate") => authCalls = 0
    /\ (firstError # "none" /\ pc # "authenticate") => authCalls = 1

\* C1: in every run, once the first ee.Initialize has returned,
\* ee.Authenticate is never called; once it has raised, ee.Authenticate
\* is called, and called exactly once.
C1_AuthenticateOnlyAfterFailure ==
    /\ []AuthCallsMatchFirstOutcome
    /\ (firstError # "none") ~> (authCalls = 1)

C1_Witness ==
    /\ pc = "done"
    /\ firstError = "EEException"
    /\ authCalls = 1
    /\ session

\* C2: ee.Initialize is called at most twice and ee.Authenticate at most
\* once; a second ee.Initialize happens only after the first one raised
\* and ee.Authenticate was then called and returned.
C2_SingleRetry ==
    /\ initCalls <= 2
    /\ authCalls <= 1
    /\ (initCalls = 2 \/ pc = "retry") =>
            /\ firstError # "none"
            /\ authCalls = 1
            /\ credentials
            /\ raised \notin {"declined", "unavailable"}
    /\ (pc \notin SessionSteps) => ~ ENABLED (InitializeFirst \/ Authenticate \/ InitializeRetry)

C2_Witness ==
    /\ initCalls = 2
    /\ authCalls = 1
    /\ pc = "failed"
    /\ raised = "OtherException"

\* C3: after the first ee.Initialize has raised, a failure of
\* ee.Authenticate or of the second ee.Initialize is raised out of the
\* cell: the run is over (no step is possible), no session is established,
\* and the notebook goes on only with a session and nothing raised.
C3_LaterFailureIsFatal ==
    firstError # "none" =>
        /\ (raised # "none") => (pc = "failed" /\ ~ session /\ ~ ENABLED Next)
        /\ (pc = "failed") => (raised # "none")
        /\ (pc \notin (SessionSteps \cup {"failed"})) => (session /\ raised = "none")

C3_Witness ==
    /\ pc = "failed"
    /\ firstError = "EEException"
    /\ raised = "declined"
    /\ initCalls = 1
    /\ ~ session

\* C9: whatever the first ee.Initialize raised, the handler runs: the
\* exception is bound to e, ee.Authenticate is the next call, and once it
\* has returned ee.Initialize is called a second time and only then.
C9_AnyFailureTriggersFallback ==
    \A cause \in {"EEException", "OtherException"} :
        firstError = cause =>
            /\ raised # "none" => authCalls = 1
            /\ pc = "authenticate" => (e = cause /\ authCalls = 0)
            /\ pc # "authenticate" => authCalls = 1
            /\ AuthenticateReturned =>
                    \/ pc = "retry" /\ initCalls = 1
                    \/ pc # "retry" /\ initCalls = 2

C9_Witness ==
    /\ firstError = "OtherException"
    /\ authCalls = 1
    /\ initCalls = 2
    /\ session
    /\ pc = "query"

(***************************************************************************)
(* Query Builder: claims C4, C5, C8, C10.                                  *)
(***************************************************************************)
\* The query cell has run: hurricanes, year, points, storm_ids and lines
\* are bound.
QueryDone ==
    pc \in {"lines_layer", "points_layer", "deck", "vector_layers", "vector_deck", "done"}

\* The year ranges by the calendar, in hours since the epoch:
\* 2016-01-01, 2017-01-01 and 2018-01-01 are days 16801, 17167 and 17532.
CalendarRange(y) ==
    CASE y = <<2, 0, 1, 6>> -> [start |-> 24 * 16801, end |-> 24 * 17167]
      [] y = <<2, 0, 1, 7>> -> [start |-> 24 * 17167, end |-> 24 * 17532]

\* The positions of a collection's features.
GeometriesOf(coll) == {coll[i].geometry : i \in DOMAIN coll}

\* The positions of the features of points that carry the id.
PointsOfStorm(id) ==
    {points[i].geometry : i \in {j \in DOMAIN points : points[j].id = id}}

IdsOfPoints == {points[i].id : i \in DOMAIN points}

LineIds == {lines[k].id : k \in DOMAIN lines}

\* The line's vertices are the positions of all points of its storm, each
\* once, in ascending order of the observations' system:time_start.
IsTrackOf(line, id) ==
    LET coords == line.geometry.coordinates
    IN  /\ line.id = id
        /\ line.geometry.type = "LineString"
        /\ {coords[k] : k \in DOMAIN coords} = PointsOfStorm(id)
        /\ Len(coords) = Cardinality(PointsOfStorm(id))
        /\ \A k \in 1..(Len(coords) - 1) :
              hurricanes[coords[k]].time_start <= hurricanes[coords[k + 1]].time_start

\* C4: points holds exactly the features of the dataset whose
\* system:time_start t satisfies year-01-01 <= t < (year+1)-01-01, each
\* once and unchanged.
C4_PointsWithinYear ==
    QueryDone =>
        LET range   == CalendarRange(year)
            inRange == {i \in DOMAIN hurricanes :
                            /\ range.start <= hurricanes[i].time_start
                            /\ hurricanes[i].time_start < range.end}
        IN  /\ GeometriesOf(points) = inRange
            /\ Len(points) = Cardinality(inRange)
            /\ \A j \in DOMAIN points : points[j] = hurricanes[points[j].geometry]

C4_Witness ==
    /\ QueryDone
    /\ Len(hurricanes) = 2
    /\ hurricanes[1].time_start = CalendarRange(year).end
    /\ hurricanes[2].time_start = CalendarRange(year).start
    /\ points = <<hurricanes[2]>>

\* C5: every storm id of points has exactly one line, no line carries an
\* id that points lacks, and each line's vertices are its storm's points
\* in ascending time order.
C5_OneLinePerStormId ==
    QueryDone =>
        /\ \A id \in IdsOfPoints :
              Cardinality({k \in DOMAIN lines : lines[k].id = id}) = 1
        /\ \A k \in DOMAIN lines :
              lines[k].id \in IdsOfPoints /\ IsTrackOf(lines[k], lines[k].id)

PaintedLayer(map, id) ==
    CHOOSE layer \in {map.painted[k] : k \in DOMAIN map.painted} :
        layer.props.id = id

\* The place of the layer with the id in the paint order, 1 at the bottom.
PaintIndex(map, id) ==
    CHOOSE k \in DOMAIN map.painted : map.painted[k].props.id = id

\* C6: the raster layer and the vector layer of the same id reference the
\* same collection (lines for "tracks", points for "points") and differ in
\* as_vector; the cell that binds the vector layers leaves the collections
\* as they are.
C6_SameCollectionBothModes ==
    /\ [](Len(shown) = 2 =>
            \A id \in {"tracks", "points"} :
                LET raster == PaintedLayer(shown[1], id)
                    vector == PaintedLayer(shown[2], id)
                IN  /\ raster.ee_object = vector.ee_object
                    /\ raster.ee_object = (IF id = "tracks" THEN "lines" ELSE "points")
                    /\ Resolve(vector.ee_object) = (IF id = "tracks" THEN lines ELSE points)
                    /\ ~ AsVector(raster)
                    /\ AsVector(vector))
    /\ [][QueryDone => (queryVars' = queryVars)]_vars

C6_Witness ==
    /\ pc = "done"
    /\ Len(shown) = 2
    /\ ~ AsVector(PaintedLayer(shown[1], "tracks"))
    /\ AsVector(PaintedLayer(shown[2], "tracks"))
    /\ Len(lines) >= 1

\* C7: every displayed map paints exactly the two layers of its deck, in
\* the order of the deck's list: the first map has points below tracks,
\* the second has tracks below points.
C7_PaintOrderIsListOrder ==
    /\ Len(shown) <= 2
    /\ \A m \in DOMAIN shown :
          /\ Len(shown[m].painted) = 2
          /\ {shown[m].painted[k].props.id : k \in 1..2} = {"tracks", "points"}
    /\ Len(shown) >= 1 => shown[Len(shown)].painted = r.layers
    /\ Len(shown) >= 1 =>
          PaintIndex(shown[1], "points") < PaintIndex(shown[1], "tracks")
    /\ Len(shown) = 2 =>
          PaintIndex(shown[2], "tracks") < PaintIndex(shown[2], "points")

C7_Witness ==
    /\ Len(shown) = 2
    /\ shown[1].painted[1].props.id = "points"
    /\ shown[2].painted[1].props.id = "tracks"
    /\ shown[1].painted[1].ee_object = shown[2].painted[2].ee_object

====
